---- MODULE Spec2Model ----
(***************************************************************************)
(* Model of lib/strategy.js: the Lit Protocol passport strategy.           *)
(* One request is authenticated per behaviour; the strategy holds no       *)
(* per-request state, so requests are independent of each other.           *)
(*                                                                         *)
(* JavaScript values are modelled as strings; Null stands for undefined /  *)
(* null / false (an absent value).  The falsy values are Null and "".      *)
(***************************************************************************)
EXTENDS Naturals, Sequences, FiniteSets, TLC

VARIABLES strategy, req, options, creds, verifyResult, jwtCalls,
          verifyCalls, doneLog, outcomes, escaped, thrown, pc

vars == <<strategy, req, options, creds, verifyResult, jwtCalls,
          verifyCalls, doneLog, outcomes, escaped, thrown, pc>>

Null == "null"

\* Bound on the number of times the application invokes the completion handler.
MaxDone == 2

------------------------------------------------------------------------------
(* JavaScript helpers *)

Truthy(v) == v \notin {Null, ""}

\* a || b
Or(a, b) == IF Truthy(a) THEN a ELSE b

\* ./utils lookup(obj, field): the value stored under field, or null.
lookup(obj, field) == IF field \in DOMAIN obj THEN obj[field] ELSE Null

EmptyMap == [k \in {} |-> Null]

------------------------------------------------------------------------------
(* Constructor *)

\* Options handed to the constructor ({} when only verify is given).
CtorOptions ==
    [jwtField : {Null, "token"}, baseUrlField : {Null}, pathField : {Null},
     extraDataField : {Null}, passReqToCallback : BOOLEAN]

Strategy(o) ==
    [_jwtField           |-> Or(o.jwtField, "jwt"),
     _baseUrlField       |-> Or(o.baseUrlField, "baseUrl"),
     _pathField          |-> Or(o.pathField, "path"),
     _extraDataField     |-> Or(o.extraDataField, "extraData"),
     name                |-> "litProtocol",
     _passReqToCallback  |-> o.passReqToCallback]

------------------------------------------------------------------------------
(* Inputs *)

FieldNames(s) == {s._jwtField, s._baseUrlField, s._pathField, s._extraDataField}

BodyValues  == {"", "a"}
QueryValues == {"", "b"}
ClaimValues == {"a", "b"}

Mappings(keys, vals) == UNION {[D -> vals] : D \in SUBSET keys}

\* Requests, restricted to the keys the strategy reads.
Requests(s) == [body  : Mappings(FieldNames(s), BodyValues),
                query : Mappings(FieldNames(s), QueryValues)]

\* The per-call options argument: undefined, or carrying badRequestMessage.
CallOptions == {EmptyMap, [badRequestMessage |-> "custom"]}

\* What LitJsSdk.verifyJwt can do: throw, return an object without payload,
\* or return { verified, payload }.
VerifyJwtResults ==
    {[kind |-> "throw", ex |-> "jwtError"], [kind |-> "nopayload"]}
    \cup [kind : {"result"}, verified : BOOLEAN,
          payload : [sub : {"addr1"}, baseUrl : ClaimValues,
                     path : ClaimValues, extraData : ClaimValues]]

\* Arguments the application passes to the completion handler.
DoneArgs == [err : {Null, "e1"}, user : {Null, "u1"},
             info : {[message |-> "i1"]}]

Exceptions == {"ex1"}

------------------------------------------------------------------------------
(* Outcomes reported to the host framework *)

NoStatus == Null
BadRequest == "400"

fail(info, status) == [type |-> "fail", info |-> info, status |-> status]
success(user, info) == [type |-> "success", user |-> user, info |-> info]
error(err) == [type |-> "error", err |-> err]

------------------------------------------------------------------------------
(* authenticate(req, options) *)

MissingMsg  == "Missing credentials"
MismatchMsg == "Ooops. JWT payload does not match requested resource."
DeniedMsg   == "Ooops. You don't have access to this resource."

\* Variant: the query is consulted before the body.
Extract_queryFirst(s, r) ==
    [jwt       |-> Or(lookup(r.query, s._jwtField), lookup(r.body, s._jwtField)),
     baseUrl   |-> Or(lookup(r.query, s._baseUrlField),
                      lookup(r.body, s._baseUrlField)),
     path      |-> Or(lookup(r.query, s._pathField), lookup(r.body, s._pathField)),
     extraData |-> Or(lookup(r.query, s._extraDataField),
                      lookup(r.body, s._extraDataField))]

\* const jwt = lookup(req.body, f) || lookup(req.query, f); ... (4 fields)
Extract(s, r) ==
    [jwt       |-> Or(lookup(r.body, s._jwtField), lookup(r.query, s._jwtField)),
     baseUrl   |-> Or(lookup(r.body, s._baseUrlField),
                      lookup(r.query, s._baseUrlField)),
     path      |-> Or(lookup(r.body, s._pathField), lookup(r.query, s._pathField)),
     extraData |-> Or(lookup(r.body, s._extraDataField),
                      lookup(r.query, s._extraDataField))]

\* Variant: extraData is not required.
MissingCredentials_noExtraData(c) ==
    ~Truthy(c.jwt) \/ ~Truthy(c.baseUrl) \/ ~Truthy(c.path)

\* !jwt || !baseUrl || !path || !extraData
MissingCredentials(c) ==
    ~Truthy(c.jwt) \/ ~Truthy(c.baseUrl) \/ ~Truthy(c.path)
        \/ ~Truthy(c.extraData)

\* payload.baseUrl !== baseUrl || payload.path !== path || ...
PayloadMismatch(payload, c) ==
    \/ payload.baseUrl # c.baseUrl
    \/ payload.path # c.path
    \/ payload.extraData # c.extraData

\* { message: options.badRequestMessage || dflt }
FailInfo(o, dflt) == [message |-> Or(lookup(o, "badRequestMessage"), dflt)]

\* The effect of a run of authenticate up to its return or to the point
\* where control is handed to the application's verify callback.
Returned(out, esc) ==
    [outcomes |-> out, verifyCalls |-> << >>, escaped |-> esc,
     pc |-> "returned"]

\* Variant: the request is never passed through.
VerifyArgs_noReq(s, r, address) == <<address, "callback">>

\* if (self._passReqToCallback) this._verify(req, address, callback)
\* else this._verify(address, callback)
VerifyArgs(s, r, address) ==
    IF s._passReqToCallback THEN <<r, address, "callback">>
                            ELSE <<address, "callback">>

\* Variant: the verified flag is checked before the payload is matched.
AfterVerifyJwt_verifiedFirst(s, r, o, c, vr) ==
    IF vr.kind = "throw" THEN Returned(<< >>, vr.ex)
    ELSE IF vr.kind = "nopayload" THEN Returned(<< >>, "TypeError")
    ELSE IF ~vr.verified
         THEN Returned(<<fail(FailInfo(o, DeniedMsg), BadRequest)>>, Null)
    ELSE IF PayloadMismatch(vr.payload, c)
         THEN Returned(<<fail(FailInfo(o, MismatchMsg), BadRequest)>>, Null)
    ELSE [outcomes |-> << >>,
          verifyCalls |-> <<VerifyArgs(s, r, vr.payload.sub)>>,
          escaped |-> Null, pc |-> "inVerify"]

\* Variant: the verified flag is not checked at all.
AfterVerifyJwt_noVerifiedCheck(s, r, o, c, vr) ==
    IF vr.kind = "throw" THEN Returned(<< >>, vr.ex)
    ELSE IF vr.kind = "nopayload" THEN Returned(<< >>, "TypeError")
    ELSE IF PayloadMismatch(vr.payload, c)
         THEN Returned(<<fail(FailInfo(o, MismatchMsg), BadRequest)>>, Null)
    ELSE [outcomes |-> << >>,
          verifyCalls |-> <<VerifyArgs(s, r, vr.payload.sub)>>,
          escaped |-> Null, pc |-> "inVerify"]

\* Variant: the failure branches lack their return and fall through to verify.
AfterVerifyJwt_fallThrough(s, r, o, c, vr) ==
    IF vr.kind = "throw" THEN Returned(<< >>, vr.ex)
    ELSE IF vr.kind = "nopayload" THEN Returned(<< >>, "TypeError")
    ELSE [outcomes |->
              (IF PayloadMismatch(vr.payload, c)
               THEN <<fail(FailInfo(o, MismatchMsg), BadRequest)>> ELSE << >>)
              \o (IF ~vr.verified
                  THEN <<fail(FailInfo(o, DeniedMsg), BadRequest)>> ELSE << >>),
          verifyCalls |-> <<VerifyArgs(s, r, vr.payload.sub)>>,
          escaped |-> Null, pc |-> "inVerify"]

\* Variant: the collaborator call sits inside the try block.
AfterVerifyJwt_catchAll(s, r, o, c, vr) ==
    IF vr.kind = "throw" THEN Returned(<<error(vr.ex)>>, Null)
    ELSE IF vr.kind = "nopayload" THEN Returned(<<error("TypeError")>>, Null)
    ELSE IF PayloadMismatch(vr.payload, c)
         THEN Returned(<<fail(FailInfo(o, MismatchMsg), BadRequest)>>, Null)
    ELSE IF ~vr.verified
         THEN Returned(<<fail(FailInfo(o, DeniedMsg), BadRequest)>>, Null)
    ELSE [outcomes |-> << >>,
          verifyCalls |-> <<VerifyArgs(s, r, vr.payload.sub)>>,
          escaped |-> Null, pc |-> "inVerify"]

\* Lines 95-141: the collaborator has answered vr.
AfterVerifyJwt(s, r, o, c, vr) ==
    IF vr.kind = "throw" THEN Returned(<< >>, vr.ex)
    ELSE IF vr.kind = "nopayload" THEN Returned(<< >>, "TypeError")
    ELSE IF PayloadMismatch(vr.payload, c)
         THEN Returned(<<fail(FailInfo(o, MismatchMsg), BadRequest)>>, Null)
    ELSE IF ~vr.verified
         THEN Returned(<<fail(FailInfo(o, DeniedMsg), BadRequest)>>, Null)
    ELSE [outcomes |-> << >>,
          verifyCalls |-> <<VerifyArgs(s, r, vr.payload.sub)>>,
          escaped |-> Null, pc |-> "inVerify"]

NoResult == [kind |-> "none"]

Authenticate ==
    /\ pc = "idle"
    /\ \E r \in Requests(strategy), o \in CallOptions :
         LET c == Extract(strategy, r) IN
         /\ req' = r
         /\ options' = o
         /\ creds' = c
         /\ IF MissingCredentials(c)
            THEN /\ outcomes' = <<fail(FailInfo(o, MissingMsg), BadRequest)>>
                 /\ pc' = "returned"
                 /\ UNCHANGED <<verifyResult, jwtCalls, verifyCalls, escaped>>
            ELSE \E vr \in VerifyJwtResults :
                   LET e == AfterVerifyJwt(strategy, r, o, c, vr) IN
                   /\ jwtCalls' = Append(jwtCalls, c.jwt)
                   /\ verifyResult' = vr
                   /\ outcomes' = e.outcomes
                   /\ verifyCalls' = e.verifyCalls
                   /\ escaped' = e.escaped
                   /\ pc' = e.pc
    /\ UNCHANGED <<strategy, doneLog, thrown>>

------------------------------------------------------------------------------
(* The application's verify callback and the completion handler *)

\* Variant: the user argument is examined before the error argument.
callback_userFirst(err, user, info) ==
    IF Truthy(user) THEN success(user, info)
    ELSE IF Truthy(err) THEN error(err)
    ELSE fail(info, NoStatus)

\* function callback(err, user, info)
callback(err, user, info) ==
    IF Truthy(err) THEN error(err)
    ELSE IF ~Truthy(user) THEN fail(info, NoStatus)
    ELSE success(user, info)

\* The application invokes the completion handler, synchronously from within
\* verify (pc = "inVerify") or later (pc = "returned").
CallbackInvoked ==
    /\ verifyCalls # << >>
    /\ Len(doneLog) < MaxDone
    /\ \E a \in DoneArgs :
         /\ outcomes' = Append(outcomes, callback(a.err, a.user, a.info))
         /\ doneLog' = Append(doneLog, [args |-> a, at |-> Len(outcomes) + 1])
    /\ UNCHANGED <<strategy, req, options, creds, verifyResult, jwtCalls,
                   verifyCalls, escaped, thrown, pc>>

\* Variant: no catch clause; the exception leaves authenticate.
Caught_rethrown(ex) == [outcomes |-> << >>, escaped |-> ex]

\* What the catch clause does with an exception thrown by verify.
Caught(ex) == [outcomes |-> <<error(ex)>>, escaped |-> Null]

\* verify throws synchronously: catch (ex) { return self.error(ex); }
VerifyThrows ==
    /\ pc = "inVerify"
    /\ \E ex \in Exceptions :
         /\ thrown' = ex
         /\ outcomes' = outcomes \o Caught(ex).outcomes
         /\ escaped' = Caught(ex).escaped
    /\ pc' = "returned"
    /\ UNCHANGED <<strategy, req, options, creds, verifyResult, jwtCalls,
                   verifyCalls, doneLog>>

\* verify returns normally, and so does authenticate.
VerifyReturns ==
    /\ pc = "inVerify"
    /\ pc' = "returned"
    /\ UNCHANGED <<strategy, req, options, creds, verifyResult, jwtCalls,
                   verifyCalls, doneLog, outcomes, escaped, thrown>>

------------------------------------------------------------------------------

NoCreds == [jwt |-> Null, baseUrl |-> Null, path |-> Null, extraData |-> Null]

Init ==
    /\ strategy \in {Strategy(o) : o \in CtorOptions}
    /\ req = [body |-> EmptyMap, query |-> EmptyMap]
    /\ options = EmptyMap
    /\ creds = NoCreds
    /\ verifyResult = NoResult
    /\ jwtCalls = << >>
    /\ verifyCalls = << >>
    /\ doneLog = << >>
    /\ outcomes = << >>
    /\ escaped = Null
    /\ thrown = Null
    /\ pc = "idle"

Next == Authenticate \/ CallbackInvoked \/ VerifyThrows \/ VerifyReturns

Spec == Init /\ [][Next]_vars

------------------------------------------------------------------------------
(* Properties *)

\* The field name is missing from the mapping, or maps to the empty string.
Blank(m, k) == k \notin DOMAIN m \/ m[k] = ""

ConfiguredNames ==
    {strategy._jwtField, strategy._baseUrlField, strategy._pathField,
     strategy._extraDataField}

\* The failure message the caller asked for, or the default.
Message(dflt) ==
    IF "badRequestMessage" \in DOMAIN options THEN options.badRequestMessage
    ELSE dflt

Overridden == "badRequestMessage" \in DOMAIN options

HasResult == pc # "idle" /\ verifyResult.kind = "result"

ClaimsDiffer ==
    \/ verifyResult.payload.baseUrl # creds.baseUrl
    \/ verifyResult.payload.path # creds.path
    \/ verifyResult.payload.extraData # creds.extraData

\* C1: whenever a claim of the verified payload (baseUrl, path, extraData)
\* differs from the extracted request value, the single outcome is the
\* failure with the mismatch message (or the override) and status 400,
\* whatever the verified flag says.
C1_MismatchFails ==
    (HasResult /\ ClaimsDiffer) =>
        outcomes = <<[type |-> "fail",
                      info |-> [message |-> Message(
                        "Ooops. JWT payload does not match requested resource.")],
                      status |-> "400"]>>

C1_Witness ==
    /\ HasResult /\ ClaimsDiffer /\ ~verifyResult.verified
    /\ ~Overridden
    /\ Len(outcomes) = 1 /\ outcomes[1].type = "fail"

\* C2: a request in which one of the four fields is missing or empty in both
\* body and query fails with status 400 and "Missing credentials" (or the
\* override).
C2_MissingFails ==
    (pc # "idle" /\ \E k \in ConfiguredNames :
                       Blank(req.body, k) /\ Blank(req.query, k)) =>
        outcomes = <<[type |-> "fail",
                      info |-> [message |-> Message("Missing credentials")],
                      status |-> "400"]>>

C2_Witness ==
    /\ pc = "returned"
    /\ Blank(req.body, strategy._extraDataField)
    /\ Blank(req.query, strategy._extraDataField)
    /\ \A k \in ConfiguredNames \ {strategy._extraDataField} :
         ~Blank(req.body, k) \/ ~Blank(req.query, k)
    /\ Overridden
    /\ Len(outcomes) = 1 /\ outcomes[1].info.message = "custom"

\* C3: all fields present, claims equal to the extracted values and verified
\* false: failure with the access-denied message (or the override), status 400.
C3_UnverifiedFails ==
    (HasResult /\ ~ClaimsDiffer /\ ~verifyResult.verified) =>
        outcomes = <<[type |-> "fail",
                      info |-> [message |-> Message(
                        "Ooops. You don't have access to this resource.")],
                      status |-> "400"]>>

C3_Witness ==
    /\ HasResult /\ ~ClaimsDiffer /\ ~verifyResult.verified
    /\ Len(outcomes) = 1 /\ outcomes[1].status = "400"

C5_SingleOutcome == Len(outcomes) <= 1

\* C6: when verify throws synchronously, the thrown value is reported through
\* error(), once, and nothing escapes authenticate.
C6_ThrowBecomesError ==
    (thrown # Null) =>
        /\ escaped = Null
        /\ Cardinality({i \in 1..Len(outcomes) :
                          outcomes[i] = [type |-> "error", err |-> thrown]}) = 1

C6_Witness ==
    /\ thrown # Null /\ pc = "returned"
    /\ outcomes = <<[type |-> "error", err |-> thrown]>>

\* C7: each invocation of the completion handler reports error(err) when err
\* is truthy, else fail(info) without status when user is falsy, else
\* success(user, info).
C7_CallbackMapping ==
    \A i \in 1..Len(doneLog) :
        LET a == doneLog[i].args
            out == outcomes[doneLog[i].at]
        IN  IF a.err \notin {"null", ""}
            THEN out = [type |-> "error", err |-> a.err]
            ELSE IF a.user \in {"null", ""}
            THEN out = [type |-> "fail", info |-> a.info, status |-> "null"]
            ELSE out = [type |-> "success", user |-> a.user, info |-> a.info]

C7_Witness ==
    /\ Len(doneLog) >= 1
    /\ doneLog[1].args.err = "e1" /\ doneLog[1].args.user = "u1"
    /\ outcomes[doneLog[1].at].type = "error"

\* The value extracted for the field named k.
Extracted(k) ==
    IF k = strategy._jwtField THEN creds.jwt
    ELSE IF k = strategy._baseUrlField THEN creds.baseUrl
    ELSE IF k = strategy._pathField THEN creds.path
    ELSE creds.extraData

\* C8 as stated: the body's value whenever the body carries the field, the
\* query's value only when the body does not.
C8_BodyWhenPresent ==
    (pc # "idle") =>
        \A k \in ConfiguredNames :
            /\ k \in DOMAIN req.body => Extracted(k) = req.body[k]
            /\ (k \notin DOMAIN req.body /\ k \in DOMAIN req.query)
                   => Extracted(k) = req.query[k]

\* C8 amended: the body's value when the body carries a non-empty value for
\* the field; otherwise the query's value, or nothing when the query lacks
\* the field as well.
C8_BodyWhenNonEmpty ==
    (pc # "idle") =>
        \A k \in ConfiguredNames :
            Extracted(k) =
                IF ~Blank(req.body, k) THEN req.body[k]
                ELSE IF k \in DOMAIN req.query THEN req.query[k]
                ELSE "null"

C8_Witness ==
    /\ pc # "idle"
    /\ \A k \in ConfiguredNames : ~Blank(req.body, k) /\ ~Blank(req.query, k)
    /\ creds.jwt = "a" /\ creds.path = "a"
    /\ verifyResult.kind = "result"

\* C9: a failed stage ends the run: missing credentials reach neither the
\* collaborator nor verify; mismatched or unverified claims never reach
\* verify; in each case exactly one failure is reported and authenticate has
\* returned.
C9_ShortCircuit ==
    /\ (pc # "idle" /\ \E v \in {creds.jwt, creds.baseUrl, creds.path,
                                 creds.extraData} : v \in {"null", ""})
          => /\ jwtCalls = << >> /\ verifyCalls = << >>
             /\ Len(outcomes) = 1 /\ outcomes[1].type = "fail"
             /\ pc = "returned"
    /\ (HasResult /\ (ClaimsDiffer \/ ~verifyResult.verified))
          => /\ Len(jwtCalls) = 1 /\ verifyCalls = << >>
             /\ Len(outcomes) = 1 /\ outcomes[1].type = "fail"
             /\ pc = "returned"

C9_Witness ==
    /\ HasResult /\ ClaimsDiffer /\ verifyResult.verified
    /\ verifyCalls = << >> /\ Len(outcomes) = 1 /\ pc = "returned"

\* C10: when the collaborator throws, or returns no payload, nothing is
\* reported, verify is never invoked, and the exception leaves authenticate.
C10_CollaboratorThrowEscapes ==
    (pc # "idle" /\ verifyResult.kind \in {"throw", "nopayload"}) =>
        /\ outcomes = << >>
        /\ verifyCalls = << >>
        /\ escaped # "null"
        /\ verifyResult.kind = "throw" => escaped = verifyResult.ex
        /\ pc = "returned"

C10_Witness ==
    /\ pc = "returned" /\ verifyResult.kind = "throw"
    /\ escaped = "jwtError" /\ outcomes = << >>

====
